---- MODULE Spec2Model ----
(***************************************************************************)
(* A model of the template finalizer (common/definitions.rs) and of the    *)
(* decoder state machine (decoder/state.rs) of rs-fastlib.                 *)
(***************************************************************************)
EXTENDS Integers, Sequences, FiniteSets, TLC

(***************************************************************************)
(* Bounds of the model.                                                    *)
(***************************************************************************)
\* Longest list of leaf instructions generated as the body of a composite.
MaxChildren == 2
\* Largest number of templates in a generated schema.
MaxTemplates == 2
\* Number of bits of a presence map read from the stream.
PmapBits == 2
\* Largest integer the reader returns.
MaxValue == 2
\* Number of messages decoded with one Decoder.
MaxMessages == 2
\* Deepest nesting of dynamic template references the stream may ask for.
MaxNesting == 1

(***************************************************************************)
(* Shared types: base/types.rs and base/instruction.rs, as far as the two  *)
(* source files use them.                                                  *)
(***************************************************************************)
Mandatory == "Mandatory"
Optional == "Optional"

Operators == {"None", "Constant", "Default", "Copy", "Increment", "Delta", "Tail"}

\* Dictionary: Inherit | Global | Template | Type | UserDefined(name)
Dict(kind, name) == [kind |-> kind, name |-> name]
Inherit == Dict("Inherit", "")
Global == Dict("Global", "")

\* TypeRef: Any | ApplicationType(name)
TypeRefOf(kind, name) == [kind |-> kind, name |-> name]
AnyType == TypeRefOf("Any", "")

\* Option<Value>: None, or a value of some kind.
NoValue == [kind |-> "None", n |-> 0]
UInt32(n) == [kind |-> "UInt32", n |-> n]

\* Option<bool>, the type of Template.require_pmap.
None == [some |-> FALSE, v |-> FALSE]
Some(b) == [some |-> TRUE, v |-> b]

\* An Instruction.  has_pmap is the Cell<bool>, false until it is set;
\* has_pmap_writes is a history field counting the calls of has_pmap.set.
Instr(id, name, vt, pres, op, init, instrs, dict, key, tref) ==
    [id |-> id, name |-> name, value_type |-> vt, presence |-> pres,
     operator |-> op, initial_value |-> init, instructions |-> instrs,
     dictionary |-> dict, key |-> key, type_ref |-> tref,
     has_pmap |-> FALSE, has_pmap_writes |-> 0]

is_optional(instr) == instr.presence = Optional

\* A Template before finalization.
Tpl(id, name, dict, tref, instrs) ==
    [id |-> id, name |-> name, dictionary |-> dict, type_ref |-> tref,
     instructions |-> instrs, require_pmap |-> None]

(***************************************************************************)
(* Definitions::new_from_templates: the two indices.  A later template     *)
(* with the same id or name replaces the earlier one (HashMap::insert).    *)
(* The indices hold positions in `templates`, the model of Rc<Template>.   *)
(***************************************************************************)
MapPut(m, k, v) == [x \in DOMAIN m \cup {k} |-> IF x = k THEN v ELSE m[x]]

EmptyMap == [x \in {} |-> 0]

RECURSIVE index_by_id(_, _, _)
index_by_id(ts, i, m) ==
    IF i > Len(ts) THEN m
    ELSE index_by_id(ts, i + 1, IF ts[i].id # 0 THEN MapPut(m, ts[i].id, i) ELSE m)

RECURSIVE index_by_name(_, _, _)
index_by_name(ts, i, m) ==
    IF i > Len(ts) THEN m
    ELSE index_by_name(ts, i + 1, IF ts[i].name # "" THEN MapPut(m, ts[i].name, i) ELSE m)

template_id_instruction ==
    Instr(0, "__template_id__", "UInt32", Mandatory, "Copy", NoValue, <<>>,
          Global, "__template_id__", AnyType)

new_from_templates(ts) ==
    [templates |-> ts,
     templates_by_id |-> index_by_id(ts, 1, EmptyMap),
     templates_by_name |-> index_by_name(ts, 1, EmptyMap),
     template_id_instruction |-> template_id_instruction]

(***************************************************************************)
(* The finalizer.  A Result<bool> is modelled with the instruction(s) as   *)
(* the walk left them: tag "Ok" with the bit, "Err" for Error::Static, and *)
(* "Panic" for a slice index out of range.                                 *)
(***************************************************************************)
Ok(bit, out) == [tag |-> "Ok", bit |-> bit, out |-> out, msg |-> ""]
Err(msg) == [tag |-> "Err", bit |-> FALSE, out |-> <<>>, msg |-> msg]
Panic(msg) == [tag |-> "Panic", bit |-> FALSE, out |-> <<>>, msg |-> msg]

\* operator_bit with Delta taken for an operator that needs a bit.
operator_bit_delta(instr) ==
    CASE instr.operator = "None" -> FALSE
      [] instr.operator \in {"Default", "Copy", "Increment", "Tail", "Delta"} -> TRUE
      [] instr.operator = "Constant" -> is_optional(instr)

\* The final match on instr.operator of has_presence_map_bit.
operator_bit(instr) ==
    CASE instr.operator = "None" -> FALSE
      [] instr.operator = "Delta" -> FALSE
      [] instr.operator \in {"Default", "Copy", "Increment", "Tail"} -> TRUE
      [] instr.operator = "Constant" -> is_optional(instr)

\* template_ref_bit with a static reference treated like a dynamic one.
template_ref_bit_no_bit(self, instr) ==
    IF instr.name # ""
    THEN IF instr.name \notin DOMAIN self.templates_by_name
         THEN Err("template not found")
         ELSE LET template == self.templates[self.templates_by_name[instr.name]]
              IN  IF template.require_pmap.some
                  THEN Ok(FALSE, instr)
                  ELSE Err("template not initialized yet; consider reordering templates")
    ELSE Ok(FALSE, instr)

\* The TemplateReference arm of has_presence_map_bit.
template_ref_bit(self, instr) ==
    IF instr.name # ""
    THEN IF instr.name \notin DOMAIN self.templates_by_name
         THEN Err("template not found")
         ELSE LET template == self.templates[self.templates_by_name[instr.name]]
              IN  IF template.require_pmap.some
                  THEN Ok(template.require_pmap.v, instr)
                  ELSE Err("template not initialized yet; consider reordering templates")
    ELSE Ok(FALSE, instr)

\* A group taking a bit also when it has a presence map of its own.
group_presence_bit_or_has_pmap(instr) == is_optional(instr) \/ instr.has_pmap

\* The Group arm of has_presence_map_bit.
group_presence_bit(instr) == is_optional(instr)

\* The last instruction of a sequence taken for its length field.
length_field_last(instr) == Len(instr.instructions)

\* The Sequence arm of has_presence_map_bit: instructions.get(0), as a place
\* in the list.
length_field(instr) == 1

\* A Decimal whose sub-instructions are not looked at.
decimal_has_pmap_ignored(instr) == FALSE

\* The Decimal arm of has_presence_map_bit: instr.has_pmap.get().
decimal_has_pmap(instr) == instr.has_pmap

RECURSIVE require_presence_map_bit_from(_, _, _, _, _)
RECURSIVE set_has_pmap(_, _)
RECURSIVE has_presence_map_bit(_, _)
RECURSIVE require_presence_map_bit_early_exit(_, _, _, _, _)

\* The loop of require_presence_map_bit leaving as soon as one bit is found.
require_presence_map_bit_early_exit(self, instructions, i, has_pmap_bit, done) ==
    IF i > Len(instructions) \/ has_pmap_bit
    THEN Ok(has_pmap_bit, done \o SubSeq(instructions, i, Len(instructions)))
    ELSE LET r == has_presence_map_bit(self, instructions[i])
         IN  IF r.tag # "Ok" THEN r
             ELSE require_presence_map_bit_early_exit(self, instructions, i + 1,
                      has_pmap_bit \/ r.bit, Append(done, r.out))

\* The loop of require_presence_map_bit from position i on: no early exit.
require_presence_map_bit_from(self, instructions, i, has_pmap_bit, done) ==
    IF i > Len(instructions) THEN Ok(has_pmap_bit, done)
    ELSE LET r == has_presence_map_bit(self, instructions[i])
         IN  IF r.tag # "Ok" THEN r
             ELSE require_presence_map_bit_from(self, instructions, i + 1,
                      has_pmap_bit \/ r.bit, Append(done, r.out))

require_presence_map_bit(self, instructions) ==
    require_presence_map_bit_from(self, instructions, 1, FALSE, <<>>)

set_has_pmap(self, instr) ==
    CASE instr.value_type \in {"Group", "TemplateReference", "Decimal"} ->
           LET r == require_presence_map_bit(self, instr.instructions)
           IN  IF r.tag # "Ok" THEN r
               ELSE Ok(FALSE, [instr EXCEPT !.instructions = r.out,
                                            !.has_pmap = r.bit,
                                            !.has_pmap_writes = @ + 1])
      [] instr.value_type = "Sequence" ->
           IF Len(instr.instructions) < 1
           THEN Panic("range start index 1 out of range for slice of length 0")
           ELSE LET r == require_presence_map_bit(self, Tail(instr.instructions))
                IN  IF r.tag # "Ok" THEN r
                    ELSE Ok(FALSE, [instr EXCEPT
                                      !.instructions = <<instr.instructions[1]>> \o r.out,
                                      !.has_pmap = r.bit,
                                      !.has_pmap_writes = @ + 1])
      [] OTHER -> Ok(FALSE, instr)

has_presence_map_bit(self, instr0) ==
    LET s == set_has_pmap(self, instr0)
    IN  IF s.tag # "Ok" THEN s
        ELSE LET instr == s.out
             IN  CASE instr.value_type = "Group" -> Ok(group_presence_bit(instr), instr)
                   [] instr.value_type = "Sequence" ->
                        IF Len(instr.instructions) = 0
                        THEN Err("sequence has no length field")
                        ELSE LET k == length_field(instr)
                                 r == has_presence_map_bit(self, instr.instructions[k])
                             IN  IF r.tag # "Ok" THEN r
                                 ELSE Ok(r.bit, [instr EXCEPT !.instructions[k] = r.out])
                   [] instr.value_type = "TemplateReference" ->
                        template_ref_bit(self, instr)
                   [] instr.value_type = "Decimal" /\ decimal_has_pmap(instr) ->
                        Ok(TRUE, instr)
                   [] OTHER -> Ok(operator_bit(instr), instr)

(***************************************************************************)
(* Schemas given to new_from_templates.                                    *)
(***************************************************************************)
SeqsUpTo(S, n) == UNION {[1..k -> S] : k \in 0..n}

Scalar(op, pres) ==
    Instr(1, "f", "UInt32", pres, op, NoValue, <<>>, Inherit, "f", AnyType)

Group(pres, body) ==
    Instr(2, "g", "Group", pres, "None", NoValue, body, Inherit, "g", AnyType)

Sequence(pres, body) ==
    Instr(3, "s", "Sequence", pres, "None", NoValue, body, Inherit, "s", AnyType)

Decimal(op, pres, body) ==
    Instr(4, "d", "Decimal", pres, op, NoValue, body, Inherit, "d", AnyType)

TemplateRef(name) ==
    Instr(0, name, "TemplateReference", Mandatory, "None", NoValue, <<>>,
          Inherit, name, AnyType)

Presences == {Mandatory, Optional}

Scalars == {Scalar(op, pres) : op \in Operators, pres \in Presences}

NoBit == Scalar("None", Mandatory)
CopyBit == Scalar("Copy", Mandatory)

BodyLeaves == {NoBit, CopyBit, Scalar("Constant", Optional)}

LeafBodies(n) == SeqsUpTo(BodyLeaves, n)

\* Composites over leaves: a Sequence with an empty list has no length field.
Inner(n) ==
    {Group(p, b) : p \in Presences, b \in LeafBodies(n)}
    \cup {Sequence(p, b) : p \in Presences, b \in LeafBodies(n)}
    \cup {Decimal(op, p, b) : op \in {"None", "Copy", "Constant"},
                              p \in Presences, b \in LeafBodies(n)}

\* An instruction alone, or next to a leaf that does or does not take a bit.
Around(S) ==
    {<<x>> : x \in S}
    \cup {<<l, x>> : l \in {NoBit, CopyBit}, x \in S}
    \cup {<<x, l>> : l \in {NoBit, CopyBit}, x \in S}

Outer(n) ==
    {Group(p, b) : p \in Presences, b \in Around(Inner(n))}
    \cup {Sequence(Mandatory, b) : b \in Around(Inner(n))}

\* One template, nested to depth two, with lists of leaves up to n long.
NestedSchemas(n) ==
    {<<Tpl(1, "A", Inherit, AnyType, b)>> :
        b \in {<<x>> : x \in Scalars} \cup Around(Inner(n) \cup Outer(n))}

\* Several templates that refer to each other, to themselves, or to nothing.
RefAtoms == {TemplateRef(""), TemplateRef("A"), TemplateRef("B"), TemplateRef("Z")}

RefNodes ==
    {NoBit, CopyBit} \cup RefAtoms
    \cup {Group(Mandatory, <<r>>) : r \in {TemplateRef("A"), TemplateRef("B")}}
    \cup {Sequence(Mandatory, <<>>)}

RefBodies ==
    {<<>>} \cup {<<x>> : x \in RefNodes} \cup {<<NoBit, x>> : x \in RefNodes}

NameSchemes ==
    {<<"A", "B", "C", "D">>, <<"A", "A", "B", "B">>, <<"", "B", "A", "A">>}

\* Up to n templates.
RefSchemas(n) ==
    UNION {{[i \in 1..k |-> Tpl(i, names[i], Inherit, AnyType, bodies[i])] :
               bodies \in [1..k -> RefBodies]} :
           k \in 1..n, names \in NameSchemes}

FinalizerSchemas(children, templates) ==
    NestedSchemas(children) \cup RefSchemas(templates)

(***************************************************************************)
(* Schemas the decoder is run on.                                          *)
(***************************************************************************)
Fld(id, name, vt, pres, op, init, dict) ==
    Instr(id, name, vt, pres, op, init, <<>>, dict, name, AnyType)

Grp(id, name, pres, dict, tref, body) ==
    Instr(id, name, "Group", pres, "None", NoValue, body, dict, name, tref)

Sqn(id, name, pres, dict, tref, body) ==
    Instr(id, name, "Sequence", pres, "None", NoValue, body, dict, name, tref)

TemplateDict == Dict("Template", "")
TypeDict == Dict("Type", "")
UserDict == Dict("UserDefined", "u")
AppType == TypeRefOf("ApplicationType", "t")

\* A Copy field and an optional group (Scenarios A and B); a mandatory group
\* with a presence map of its own, scopes of its own and a nested group.
GroupSchema ==
    <<Tpl(1, "A", Inherit, AnyType,
          <<Fld(1, "x", "UInt32", Mandatory, "Copy", NoValue, Inherit),
            Grp(2, "g", Optional, Inherit, AnyType,
                <<Fld(3, "y", "UInt32", Mandatory, "None", NoValue, Inherit)>>)>>),
      Tpl(2, "B", Inherit, AnyType,
          <<Grp(4, "m", Mandatory, UserDict, AppType,
                <<Fld(5, "a", "UInt32", Optional, "Copy", NoValue, TypeDict),
                  Grp(6, "o", Optional, Inherit, AnyType,
                      <<Fld(7, "z", "UInt32", Mandatory, "Delta", NoValue, Inherit)>>)>>)>>)>>

\* A sequence whose items have a presence map (Scenario C) and whose length
\* is optional; a sequence without one whose length takes a bit.
SequenceSchema ==
    <<Tpl(1, "S", Inherit, AnyType,
          <<Sqn(1, "s", Mandatory, Inherit, AnyType,
                <<Fld(2, "len", "UInt32", Optional, "None", NoValue, Inherit),
                  Fld(3, "v", "UInt32", Mandatory, "Copy", NoValue, Inherit)>>)>>),
      Tpl(2, "Q", Inherit, AnyType,
          <<Sqn(4, "q", Mandatory, TemplateDict, AppType,
                <<Fld(5, "len", "UInt32", Mandatory, "Copy", NoValue, Inherit),
                  Fld(6, "w", "UInt32", Mandatory, "None", NoValue, Inherit)>>),
            Fld(7, "e", "UInt32", Mandatory, "Constant", UInt32(1), Inherit)>>)>>

\* A sequence whose length is no UInt32; the remaining operators.
OperatorSchema ==
    <<Tpl(1, "L", Inherit, AnyType,
          <<Sqn(1, "s", Optional, UserDict, AnyType,
                <<Fld(2, "len", "Int32", Mandatory, "None", NoValue, Inherit),
                  Fld(3, "v", "UInt32", Mandatory, "None", NoValue, Inherit)>>)>>),
      Tpl(2, "O", Inherit, AnyType,
          <<Grp(4, "m", Mandatory, Inherit, AnyType,
                <<Fld(5, "d", "UInt32", Mandatory, "Default", UInt32(1), Inherit),
                  Fld(6, "t", "AsciiString", Optional, "Tail",
                      [kind |-> "AsciiString", n |-> 12], Inherit)>>),
            Grp(7, "n", Mandatory, Inherit, AnyType,
                <<Fld(8, "i", "UInt32", Mandatory, "Increment", NoValue, Inherit),
                  Fld(9, "c", "UInt32", Optional, "Constant", UInt32(2), Inherit)>>),
            Fld(10, "dec", "Decimal", Mandatory, "None", NoValue, Inherit)>>)>>

\* Static references (Scenario D): B has no id and is reached by name only.
StaticSchema ==
    <<Tpl(0, "B", TemplateDict, AnyType,
          <<Fld(1, "b", "UInt32", Mandatory, "Copy", NoValue, Inherit)>>),
      Tpl(1, "A", Inherit, AnyType,
          <<TemplateRef("B"),
            Fld(2, "n", "UInt32", Optional, "None", NoValue, Inherit)>>),
      Tpl(2, "C", TypeDict, AppType,
          <<Fld(3, "k", "UInt32", Mandatory, "None", NoValue, Inherit),
            TemplateRef("A")>>)>>

\* Dynamic references (Scenario E) under a Template and a UserDefined scope.
DynamicSchema ==
    <<Tpl(1, "X", TemplateDict, AnyType,
          <<TemplateRef(""),
            Fld(1, "x", "UInt32", Mandatory, "Copy", NoValue, Inherit)>>),
      Tpl(2, "Y", UserDict, AnyType,
          <<Fld(2, "y", "UInt32", Optional, "Copy", NoValue, Inherit)>>)>>

\* A dynamic reference under the Global scope; a template without a name; a
\* mandatory group without a presence map.
GlobalSchema ==
    <<Tpl(1, "G", Inherit, AnyType,
          <<Fld(1, "p", "UInt32", Mandatory, "None", NoValue, Inherit),
            TemplateRef("")>>),
      Tpl(2, "", TypeDict, AnyType,
          <<Grp(2, "h", Mandatory, Inherit, AnyType,
                <<Fld(3, "r", "UInt32", Mandatory, "Constant", UInt32(1), Inherit)>>)>>)>>

\* Schemas new_from_templates rejects: a forward reference, a sequence
\* without a length field.
ForwardSchema ==
    <<Tpl(1, "A", Inherit, AnyType, <<TemplateRef("B")>>),
      Tpl(2, "B", Inherit, AnyType, <<>>)>>

NoLengthSchema ==
    <<Tpl(1, "A", Inherit, AnyType,
          <<Sqn(1, "s", Mandatory, Inherit, AnyType, <<>>)>>)>>

DecoderSchemas ==
    {GroupSchema, SequenceSchema, OperatorSchema, StaticSchema, DynamicSchema,
     GlobalSchema, ForwardSchema, NoLengthSchema}

(***************************************************************************)
(* State.                                                                  *)
(***************************************************************************)
VARIABLES
    defs,           \* the Definitions under construction or in use
    result,         \* what new_from_templates returned: "pending", "Ok", "Err", "Panic"
    next_tpl,       \* position of finalize's loop over self.templates
    status,         \* the DecoderState: "none", "new", "decoding", or what
                    \* decode_template returned: "Ok", "Err", "Panic"
    template_id,    \* DecoderState.template_id
    dictionary,     \* DecoderState.dictionary
    type_ref,       \* DecoderState.type_ref
    presence_map,   \* DecoderState.presence_map
    context,        \* Decoder.context, the dictionary slots
    rdr,            \* number of reads the Reader has served to this DecoderState
    msg,            \* the calls received by the MessageFactory, in order
    frames,         \* the call stack of the decode_* handlers
    messages        \* number of DecoderStates created so far

finalizer_vars == <<defs, result, next_tpl>>

state_vars == <<template_id, dictionary, type_ref, presence_map, context, rdr>>

decoder_vars == <<status, template_id, dictionary, type_ref, presence_map,
                  context, rdr, msg, frames, messages>>

vars == <<defs, result, next_tpl, status, template_id, dictionary, type_ref,
          presence_map, context, rdr, msg, frames, messages>>

(***************************************************************************)
(* The finalizer's contract, as the specification words it.                *)
(***************************************************************************)
Composite(instr) == instr.value_type \in {"Group", "Sequence", "Decimal"}

IsScalar(instr) ==
    instr.value_type \notin {"Group", "Sequence", "Decimal", "TemplateReference"}

\* Every instruction of a list, at any depth.
RECURSIVE Nested(_)
Nested(instructions) ==
    UNION {{instructions[i]} \cup Nested(instructions[i].instructions) :
              i \in DOMAIN instructions}

\* The truth table of section 4.1.
ScalarRule(op, pres) ==
    CASE op = "None" -> FALSE
      [] op = "Delta" -> FALSE
      [] op = "Default" -> TRUE
      [] op = "Copy" -> TRUE
      [] op = "Increment" -> TRUE
      [] op = "Tail" -> TRUE
      [] op = "Constant" -> pres = Optional

\* The template a static reference resolves to.
Referenced(d, instr) == d.templates[d.templates_by_name[instr.name]]

\* contributes_bit of section 4.1, read off a finalized schema.
RECURSIVE ContributesBit(_, _)
ContributesBit(d, instr) ==
    CASE instr.value_type = "Group" -> instr.presence = Optional
      [] instr.value_type = "Sequence" -> ContributesBit(d, instr.instructions[1])
      [] instr.value_type = "TemplateReference" ->
           IF instr.name = "" THEN FALSE ELSE Referenced(d, instr).require_pmap.v
      [] instr.value_type = "Decimal" ->
           \/ \E i \in DOMAIN instr.instructions : ContributesBit(d, instr.instructions[i])
           \/ ScalarRule(instr.operator, instr.presence)
      [] OTHER -> ScalarRule(instr.operator, instr.presence)

AnyContributes(d, instructions) ==
    \E i \in DOMAIN instructions : ContributesBit(d, instructions[i])

(***************************************************************************)
(* The decoder's collaborators: utils/stacked.rs, base/pmap.rs,            *)
(* decoder/context.rs and decoder/reader.rs.                               *)
(***************************************************************************)
\* Stacked<T>
Push(stack, x) == Append(stack, x)
Pop(stack) == IF Len(stack) = 0 THEN stack ELSE SubSeq(stack, 1, Len(stack) - 1)
Peek(stack) == stack[Len(stack)]

\* PresenceMap::new.  cursor counts the calls of next_bit_set; due and refs
\* are history fields: the instructions met under this map that contribute a
\* bit themselves, and the static template references met under it whose
\* template requires a presence map.
PresenceMap(bits) == [bits |-> bits, cursor |-> 0, due |-> 0, refs |-> 0]

\* PresenceMap::new_empty
EmptyPresenceMap == PresenceMap(<<>>)

\* PresenceMap::next_bit_set: past the last bit the answer is false.
next_bit_set(pm) ==
    [bit |-> IF pm.cursor < Len(pm.bits) THEN pm.bits[pm.cursor + 1] ELSE FALSE,
     pm |-> [pm EXCEPT !.cursor = @ + 1]]

\* Reader::read_presence_map returns whole bytes of presence bits.
Bitmaps == [1..PmapBits -> BOOLEAN]

\* The values a Reader returns for a field: any value of the field's type,
\* and null when the field is nullable.
ReadValues(instr) ==
    {[kind |-> instr.value_type, n |-> n] : n \in 0..MaxValue}
    \cup (IF is_optional(instr) THEN {NoValue} ELSE {})

\* The working state of a DecoderState, as the handlers pass it on.
Out(tag, value, st) == [tag |-> tag, value |-> value, st |-> st]

\* `?`: go on with f after an Ok, hand an error on as it is.
Bind(outs, f(_)) == UNION {IF o.tag = "Ok" THEN f(o) ELSE {o} : o \in outs}

\* History: the instruction is met under the top presence map.
Met(st, instr) ==
    IF ContributesBit(defs, instr)
    THEN [st EXCEPT !.presence_map[Len(st.presence_map)].due = @ + 1]
    ELSE st

MetReference(st, instr) ==
    IF instr.name # "" /\ ContributesBit(defs, instr)
    THEN [st EXCEPT !.presence_map[Len(st.presence_map)].refs = @ + 1]
    ELSE st

(***************************************************************************)
(* decoder/state.rs: the helpers of DecoderState.                          *)
(***************************************************************************)
\* DecoderState::new
NewTemplateId == <<>>
NewDictionary == <<Global>>
NewTypeRef == <<AnyType>>
NewPresenceMap == <<EmptyPresenceMap>>

pmap_next_bit_set(st) ==
    LET r == next_bit_set(Peek(st.presence_map))
    IN  [bit |-> r.bit,
         st |-> [st EXCEPT !.presence_map[Len(st.presence_map)] = r.pm]]

\* DictionaryType: Global | Template(id) | Type(name) | UserDefined(name)
DictionaryType(kind, id, name) == [kind |-> kind, id |-> id, name |-> name]

\* make_dict_type fails on Inherit (unreachable!) and on an empty stack
\* (must_peek).
make_dict_type_panics(st) ==
    \/ Len(st.dictionary) = 0
    \/ Peek(st.dictionary).kind = "Inherit"
    \/ Peek(st.dictionary).kind = "Template" /\ Len(st.template_id) = 0
    \/ Peek(st.dictionary).kind = "Type" /\ Len(st.type_ref) = 0

\* make_dict_type with the id of the message for the Template scope.
make_dict_type_of_message(st) ==
    LET dict == Peek(st.dictionary)
    IN  CASE dict.kind = "Global" -> DictionaryType("Global", 0, "")
          [] dict.kind = "Template" ->
               DictionaryType("Template", st.template_id[1], "")
          [] dict.kind = "Type" ->
               DictionaryType("Type", 0,
                   IF Peek(st.type_ref).kind = "Any" THEN "__any__"
                   ELSE Peek(st.type_ref).name)
          [] dict.kind = "UserDefined" -> DictionaryType("UserDefined", 0, dict.name)

make_dict_type(st) ==
    LET dict == Peek(st.dictionary)
    IN  CASE dict.kind = "Global" -> DictionaryType("Global", 0, "")
          [] dict.kind = "Template" ->
               DictionaryType("Template", Peek(st.template_id), "")
          [] dict.kind = "Type" ->
               DictionaryType("Type", 0,
                   IF Peek(st.type_ref).kind = "Any" THEN "__any__"
                   ELSE Peek(st.type_ref).name)
          [] dict.kind = "UserDefined" -> DictionaryType("UserDefined", 0, dict.name)

Slot(st, i) == [dict |-> make_dict_type(st), key |-> i.key]

\* ctx_get: an empty slot gives None.
ctx_get(st, i) ==
    IF Slot(st, i) \in DOMAIN st.context THEN st.context[Slot(st, i)] ELSE NoValue

ctx_set(st, i, v) == [st EXCEPT !.context = MapPut(@, Slot(st, i), v)]

\* switch_dictionary pushing Inherit like any other dictionary.
switch_dictionary_always(st, dict) ==
    [pushed |-> TRUE, st |-> [st EXCEPT !.dictionary = Push(@, dict)]]

switch_dictionary(st, dict) ==
    IF dict # Inherit
    THEN [pushed |-> TRUE, st |-> [st EXCEPT !.dictionary = Push(@, dict)]]
    ELSE [pushed |-> FALSE, st |-> st]

restore_dictionary(st) == [st EXCEPT !.dictionary = Pop(@)]

switch_type_ref(st, tref) ==
    IF tref # AnyType
    THEN [pushed |-> TRUE, st |-> [st EXCEPT !.type_ref = Push(@, tref)]]
    ELSE [pushed |-> FALSE, st |-> st]

restore_type_ref(st) == [st EXCEPT !.type_ref = Pop(@)]

\* restore forgetting the type_ref stack.
restore_dictionary_only(st, has_dictionary, has_type_ref) ==
    IF has_dictionary THEN restore_dictionary(st) ELSE st

\* The two restores at the end of a handler.
restore(st, has_dictionary, has_type_ref) ==
    LET s1 == IF has_dictionary THEN restore_dictionary(st) ELSE st
    IN  IF has_type_ref THEN restore_type_ref(s1) ELSE s1

drop_template_id(st) == [st EXCEPT !.template_id = Pop(@)]

drop_presence_map(st) == [st EXCEPT !.presence_map = Pop(@)]

decode_presence_map(st) ==
    {Out("Ok", NoValue, [st EXCEPT !.presence_map = Push(@, PresenceMap(bits)),
                                   !.rdr = @ + 1]) : bits \in Bitmaps}
    \cup {Out("Err", NoValue, st)}

(***************************************************************************)
(* Instruction::extract (base/instruction.rs): the seven field operators.  *)
(***************************************************************************)
\* One value read from the stream, or a Reader error.
read(instr, st) ==
    {Out("Ok", v, [st EXCEPT !.rdr = @ + 1]) : v \in ReadValues(instr)}
    \cup {Out("Err", NoValue, st)}

\* The previous value: the dictionary slot, else the initial value.
Base(instr, st) ==
    IF ctx_get(st, instr) # NoValue THEN ctx_get(st, instr) ELSE instr.initial_value

\* Neither a stored nor an initial value: absent when optional, else an error.
Absent(instr, st) ==
    IF is_optional(instr) THEN {Out("Ok", NoValue, st)} ELSE {Out("Err", NoValue, st)}

\* A tail of one character replaces the last character of the base; strings
\* are written as numerals over the characters 1..9, the empty string as 0.
Splice(base, tail) == IF base < 10 THEN tail ELSE (base \div 10) * 10 + tail

Value(instr, n) == [kind |-> instr.value_type, n |-> n]

Stored(instr, v, st) == {Out("Ok", v, ctx_set(st, instr, v))}

extract_copy(instr, st) ==
    LET b == pmap_next_bit_set(st)
    IN  IF b.bit
        THEN Bind(read(instr, b.st), LAMBDA o : Stored(instr, o.value, o.st))
        ELSE IF Base(instr, b.st) # NoValue
             THEN Stored(instr, Base(instr, b.st), b.st)
             ELSE Absent(instr, b.st)

extract_increment(instr, st) ==
    LET b == pmap_next_bit_set(st)
    IN  IF b.bit
        THEN Bind(read(instr, b.st), LAMBDA o : Stored(instr, o.value, o.st))
        ELSE IF ctx_get(b.st, instr) # NoValue
             THEN Stored(instr, Value(instr, ctx_get(b.st, instr).n + 1), b.st)
             ELSE IF instr.initial_value # NoValue
                  THEN Stored(instr, instr.initial_value, b.st)
                  ELSE Absent(instr, b.st)

extract_delta(instr, st) ==
    Bind(read(instr, st),
         LAMBDA o : IF o.value = NoValue THEN {o}
                    ELSE Stored(instr,
                                Value(instr, (IF Base(instr, o.st) # NoValue
                                              THEN Base(instr, o.st).n ELSE 0) + o.value.n),
                                o.st))

extract_tail(instr, st) ==
    LET b == pmap_next_bit_set(st)
    IN  IF b.bit
        THEN Bind(read(instr, b.st),
                  LAMBDA o : IF o.value = NoValue THEN Stored(instr, NoValue, o.st)
                             ELSE Stored(instr,
                                         Value(instr, Splice(IF Base(instr, o.st) # NoValue
                                                             THEN Base(instr, o.st).n ELSE 0,
                                                             o.value.n)),
                                         o.st))
        ELSE IF Base(instr, b.st) # NoValue
             THEN Stored(instr, Base(instr, b.st), b.st)
             ELSE Absent(instr, b.st)

extract_default(instr, st) ==
    LET b == pmap_next_bit_set(st)
    IN  IF b.bit THEN read(instr, b.st)
        ELSE IF instr.initial_value # NoValue
             THEN {Out("Ok", instr.initial_value, b.st)}
             ELSE Absent(instr, b.st)

extract_constant(instr, st) ==
    IF is_optional(instr)
    THEN LET b == pmap_next_bit_set(st)
         IN  {Out("Ok", IF b.bit THEN instr.initial_value ELSE NoValue, b.st)}
    ELSE {Out("Ok", instr.initial_value, st)}

\* The operators that call ctx_get and ctx_set.
extract_with_dictionary(instr, st) ==
    IF make_dict_type_panics(st) THEN {Out("Panic", NoValue, st)}
    ELSE CASE instr.operator = "Copy" -> extract_copy(instr, st)
           [] instr.operator = "Increment" -> extract_increment(instr, st)
           [] instr.operator = "Delta" -> extract_delta(instr, st)
           [] instr.operator = "Tail" -> extract_tail(instr, st)

extract(instr, st) ==
    CASE instr.operator = "None" -> read(instr, st)
      [] instr.operator = "Constant" -> extract_constant(instr, st)
      [] instr.operator = "Default" -> extract_default(instr, st)
      [] OTHER -> extract_with_dictionary(instr, st)

(***************************************************************************)
(* decoder/state.rs: the parts of the handlers that run without a call of  *)
(* decode_instructions in between.                                         *)
(***************************************************************************)
read_template_id(st) ==
    Bind(extract(defs.template_id_instruction, Met(st, defs.template_id_instruction)),
         LAMBDA o : IF o.value.kind = "UInt32" THEN {o}
                    ELSE {Out("Err", NoValue, o.st)})

decode_template_id(st) ==
    Bind(read_template_id(st),
         LAMBDA o : {Out("Ok", o.value, [o.st EXCEPT !.template_id = Push(@, o.value.n)])})

extract_field(instr, st) ==
    LET d == switch_dictionary(st, instr.dictionary)
    IN  Bind(extract(instr, d.st),
             LAMBDA o : {Out("Ok", o.value,
                             IF d.pushed THEN restore_dictionary(o.st) ELSE o.st)})

\* A lookup that falls back on the first template.
templates_by_id_get_or_first(id) ==
    IF id \in DOMAIN defs.templates_by_id THEN defs.templates_by_id[id] ELSE 1

\* templates_by_id.get(id): the place of the template in templates, 0 for None.
templates_by_id_get(id) ==
    IF id \in DOMAIN defs.templates_by_id THEN defs.templates_by_id[id] ELSE 0

\* decode_template and the dynamic arm of decode_template_ref up to the
\* lookup in templates_by_id: Ok with the place of the template.
decode_template_header(st) ==
    Bind(Bind(decode_presence_map(st), LAMBDA o : decode_template_id(o.st)),
         LAMBDA o : IF templates_by_id_get(Peek(o.st.template_id)) # 0
                    THEN {Out("Ok", UInt32(templates_by_id_get(Peek(o.st.template_id))),
                              o.st)}
                    ELSE {Out("Err", NoValue, o.st)})

(***************************************************************************)
(* The MessageFactory calls and the frames of the handlers.                *)
(***************************************************************************)
Call(fn, id, name, n, value, is_dynamic) ==
    [call |-> fn, id |-> id, name |-> name, n |-> n, value |-> value,
     is_dynamic |-> is_dynamic]

start_template(id, name) == Call("start_template", id, name, 0, NoValue, FALSE)
stop_template == Call("stop_template", 0, "", 0, NoValue, FALSE)
set_value(id, name, value) == Call("set_value", id, name, 0, value, FALSE)
start_sequence(id, name, length) == Call("start_sequence", id, name, length, NoValue, FALSE)
start_sequence_item(idx) == Call("start_sequence_item", 0, "", idx, NoValue, FALSE)
stop_sequence_item == Call("stop_sequence_item", 0, "", 0, NoValue, FALSE)
stop_sequence == Call("stop_sequence", 0, "", 0, NoValue, FALSE)
start_group(name) == Call("start_group", 0, name, 0, NoValue, FALSE)
stop_group == Call("stop_group", 0, "", 0, NoValue, FALSE)
start_template_ref(name, is_dynamic) ==
    Call("start_template_ref", 0, name, 0, NoValue, is_dynamic)
stop_template_ref == Call("stop_template_ref", 0, "", 0, NoValue, FALSE)

\* A handler waiting for the handler it called.  instructions and i are the
\* list and the position of decode_instructions; a decode_sequence frame holds
\* the sequence instruction, idx in i, and whether an item is being decoded.
Frame(fn, instructions, i, length, has_dictionary, has_type_ref, is_dynamic, in_item) ==
    [fn |-> fn, instructions |-> instructions, i |-> i, length |-> length,
     has_dictionary |-> has_dictionary, has_type_ref |-> has_type_ref,
     is_dynamic |-> is_dynamic, in_item |-> in_item]

InstructionsFrame(instructions) ==
    Frame("decode_instructions", instructions, 1, 0, FALSE, FALSE, FALSE, FALSE)

SegmentFrame == Frame("decode_segment", <<>>, 0, 0, FALSE, FALSE, FALSE, FALSE)

\* decode_segment up to its call of decode_instructions, and the frames of
\* the body with or without a presence map of its own.
BodyFrames(has_pmap, instructions) ==
    IF has_pmap THEN <<SegmentFrame, InstructionsFrame(instructions)>>
    ELSE <<InstructionsFrame(instructions)>>

\* BodyEntry reading a presence map for every body.
BodyEntry_always(has_pmap, st) == decode_presence_map(st)

BodyEntry(has_pmap, st) ==
    IF has_pmap THEN decode_presence_map(st) ELSE {Out("Ok", NoValue, st)}

(***************************************************************************)
(* The state of the DecoderState as one record, and back.                  *)
(***************************************************************************)
St ==
    [template_id |-> template_id, dictionary |-> dictionary, type_ref |-> type_ref,
     presence_map |-> presence_map, context |-> context, rdr |-> rdr]

SetSt(st) ==
    /\ template_id' = st.template_id
    /\ dictionary' = st.dictionary
    /\ type_ref' = st.type_ref
    /\ presence_map' = st.presence_map
    /\ context' = st.context
    /\ rdr' = st.rdr

Top == frames[Len(frames)]

Running(fn) == status = "decoding" /\ Len(frames) > 0 /\ Top.fn = fn

\* decode_instructions is at an instruction of one of these value types.
Dispatching(value_types) ==
    /\ Running("decode_instructions")
    /\ Top.i <= Len(Top.instructions)
    /\ Top.instructions[Top.i].value_type \in value_types

Composites == {"Sequence", "Group", "TemplateReference"}

FieldTypes == {"UInt32", "Int32", "AsciiString", "Decimal"}

\* The caller's frames once the instruction at hand has been decoded.
Advanced == [frames EXCEPT ![Len(frames)].i = @ + 1]

\* `?` on an error: decode_template returns it; nothing is undone.
Fail(o, calls) ==
    /\ SetSt(o.st)
    /\ status' = o.tag
    /\ frames' = <<>>
    /\ msg' = calls
    /\ UNCHANGED <<messages>>

(***************************************************************************)
(* Initial states.                                                         *)
(***************************************************************************)
NoDecoderState ==
    /\ status = "none"
    /\ template_id = NewTemplateId
    /\ dictionary = NewDictionary
    /\ type_ref = NewTypeRef
    /\ presence_map = NewPresenceMap
    /\ context = EmptyMap
    /\ rdr = 0
    /\ msg = <<>>
    /\ frames = <<>>
    /\ messages = 0

\* new_from_templates up to the call of finalize.
InitFinalizer ==
    /\ \E ts \in FinalizerSchemas(MaxChildren, MaxTemplates) : defs = new_from_templates(ts)
    /\ result = "pending"
    /\ next_tpl = 1
    /\ NoDecoderState

Init ==
    /\ \E ts \in DecoderSchemas : defs = new_from_templates(ts)
    /\ result = "pending"
    /\ next_tpl = 1
    /\ NoDecoderState

(***************************************************************************)
(* Definitions::finalize.                                                  *)
(***************************************************************************)
\* One iteration of the loop of finalize.
FinalizeTemplate ==
    /\ result = "pending"
    /\ next_tpl <= Len(defs.templates)
    /\ LET tpl == defs.templates[next_tpl]
           need_pmap == require_presence_map_bit(defs, tpl.instructions)
       IN  \/ /\ need_pmap.tag = "Ok"
              /\ defs' = [defs EXCEPT
                            !.templates[next_tpl].instructions = need_pmap.out,
                            !.templates[next_tpl].require_pmap = Some(need_pmap.bit)]
              /\ next_tpl' = next_tpl + 1
              /\ UNCHANGED result
           \/ /\ need_pmap.tag = "Err"
              /\ result' = "Err"
              /\ UNCHANGED <<defs, next_tpl>>
           \/ /\ need_pmap.tag = "Panic"
              /\ result' = "Panic"
              /\ UNCHANGED <<defs, next_tpl>>
    /\ UNCHANGED decoder_vars

\* finalize returns Ok(()) and new_from_templates returns Ok(definitions).
FinalizeReturn ==
    /\ result = "pending"
    /\ next_tpl > Len(defs.templates)
    /\ result' = "Ok"
    /\ UNCHANGED <<defs, next_tpl>>
    /\ UNCHANGED decoder_vars

(***************************************************************************)
(* DecoderState: one DecoderState per message, then its handlers.          *)
(***************************************************************************)
\* DecoderState::new, for the next message of the stream.
New ==
    /\ result = "Ok"
    /\ status \in {"none", "Ok", "Err"}
    /\ messages < MaxMessages
    /\ status' = "new"
    /\ template_id' = NewTemplateId
    /\ dictionary' = NewDictionary
    /\ type_ref' = NewTypeRef
    /\ presence_map' = NewPresenceMap
    /\ rdr' = 0
    /\ msg' = <<>>
    /\ frames' = <<>>
    /\ messages' = messages + 1
    /\ UNCHANGED <<context>>
    /\ UNCHANGED finalizer_vars

\* decode_template up to its call of decode_instructions.
DecodeTemplate ==
    /\ status = "new"
    /\ \E o \in decode_template_header(St) :
           \/ /\ o.tag = "Ok"
              /\ LET template == defs.templates[o.value.n]
                     d == switch_dictionary(o.st, template.dictionary)
                     t == switch_type_ref(d.st, template.type_ref)
                 IN  /\ SetSt(t.st)
                     /\ msg' = Append(msg, start_template(template.id, template.name))
                     /\ frames' = <<Frame("decode_template", <<>>, 0, 0,
                                          d.pushed, t.pushed, FALSE, FALSE),
                                    InstructionsFrame(template.instructions)>>
              /\ status' = "decoding"
              /\ UNCHANGED messages
           \/ /\ o.tag # "Ok"
              /\ Fail(o, msg)
    /\ UNCHANGED finalizer_vars

\* decode_template after decode_instructions returned Ok.
DecodeTemplateReturn ==
    /\ Running("decode_template")
    /\ SetSt(drop_presence_map(drop_template_id(
                 restore(St, Top.has_dictionary, Top.has_type_ref))))
    /\ msg' = Append(msg, stop_template)
    /\ status' = "Ok"
    /\ frames' = <<>>
    /\ UNCHANGED messages
    /\ UNCHANGED finalizer_vars

\* decode_instructions at the end of its list.
DecodeInstructionsReturn ==
    /\ Running("decode_instructions")
    /\ Top.i > Len(Top.instructions)
    /\ frames' = Pop(frames)
    /\ UNCHANGED <<status, msg, messages>>
    /\ UNCHANGED state_vars
    /\ UNCHANGED finalizer_vars

\* decode_segment after decode_instructions returned Ok.
DecodeSegmentReturn ==
    /\ Running("decode_segment")
    /\ SetSt(drop_presence_map(St))
    /\ frames' = Pop(frames)
    /\ UNCHANGED <<status, msg, messages>>
    /\ UNCHANGED finalizer_vars

\* decode_field telling the MessageFactory of the present values only.
field_calls_present_only(calls, instruction, value) ==
    IF value = NoValue THEN calls
    ELSE Append(calls, set_value(instruction.id, instruction.name, value))

\* decode_field: the value, present or not, goes to the MessageFactory.
field_calls(calls, instruction, value) ==
    Append(calls, set_value(instruction.id, instruction.name, value))

\* decode_field
DecodeField ==
    /\ Dispatching(FieldTypes)
    /\ LET instruction == Top.instructions[Top.i]
       IN  \E o \in extract_field(instruction, Met(St, instruction)) :
               \/ /\ o.tag = "Ok"
                  /\ SetSt(o.st)
                  /\ msg' = field_calls(msg, instruction, o.value)
                  /\ frames' = Advanced
                  /\ UNCHANGED <<status, messages>>
               \/ /\ o.tag # "Ok"
                  /\ Fail(o, msg)
    /\ UNCHANGED finalizer_vars

\* decode_sequence up to the loop over the items.
DecodeSequence ==
    /\ Dispatching({"Sequence"})
    /\ LET instruction == Top.instructions[Top.i]
           d == switch_dictionary(Met(St, instruction), instruction.dictionary)
           t == switch_type_ref(d.st, instruction.type_ref)
           length_instruction == instruction.instructions[1]
       IN  \E o \in extract_field(length_instruction, t.st) :
               \/ /\ o.tag = "Ok"
                  /\ o.value = NoValue
                  /\ SetSt(restore(o.st, d.pushed, t.pushed))
                  /\ frames' = Advanced
                  /\ UNCHANGED <<status, msg, messages>>
               \/ /\ o.tag = "Ok"
                  /\ o.value.kind = "UInt32"
                  /\ SetSt(o.st)
                  /\ msg' = Append(msg, start_sequence(instruction.id, instruction.name,
                                                       o.value.n))
                  /\ frames' = Append(Advanced,
                                      Frame("decode_sequence", <<instruction>>, 0,
                                            o.value.n, d.pushed, t.pushed, FALSE, FALSE))
                  /\ UNCHANGED <<status, messages>>
               \/ /\ o.tag = "Ok"
                  /\ o.value.kind \notin {"None", "UInt32"}
                  /\ Fail(Out("Err", NoValue, o.st), msg)
               \/ /\ o.tag # "Ok"
                  /\ Fail(o, msg)
    /\ UNCHANGED finalizer_vars

\* The range with one item too many.
more_items_inclusive(idx, length) == idx <= length

\* The range 0..length of the loop of decode_sequence.
more_items(idx, length) == idx < length

\* The loop of decode_sequence: the next item up to the call that decodes it.
DecodeSequenceItem ==
    /\ Running("decode_sequence")
    /\ ~Top.in_item
    /\ more_items(Top.i, Top.length)
    /\ LET instruction == Top.instructions[1]
           calls == Append(msg, start_sequence_item(Top.i))
       IN  \E o \in BodyEntry(instruction.has_pmap, St) :
               \/ /\ o.tag = "Ok"
                  /\ SetSt(o.st)
                  /\ msg' = calls
                  /\ frames' = [frames EXCEPT ![Len(frames)].in_item = TRUE]
                               \o BodyFrames(instruction.has_pmap,
                                             Tail(instruction.instructions))
                  /\ UNCHANGED <<status, messages>>
               \/ /\ o.tag # "Ok"
                  /\ Fail(o, calls)
    /\ UNCHANGED finalizer_vars

\* The loop of decode_sequence after an item was decoded.
DecodeSequenceItemReturn ==
    /\ Running("decode_sequence")
    /\ Top.in_item
    /\ msg' = Append(msg, stop_sequence_item)
    /\ frames' = [frames EXCEPT ![Len(frames)].in_item = FALSE,
                                ![Len(frames)].i = @ + 1]
    /\ UNCHANGED <<status, messages>>
    /\ UNCHANGED state_vars
    /\ UNCHANGED finalizer_vars

\* decode_sequence after the last item.
DecodeSequenceReturn ==
    /\ Running("decode_sequence")
    /\ ~Top.in_item
    /\ ~more_items(Top.i, Top.length)
    /\ msg' = Append(msg, stop_sequence)
    /\ SetSt(restore(St, Top.has_dictionary, Top.has_type_ref))
    /\ frames' = Pop(frames)
    /\ UNCHANGED <<status, messages>>
    /\ UNCHANGED finalizer_vars

\* group_bit asking for a bit whatever the presence of the group.
group_bit_always(instruction, st) == pmap_next_bit_set(st)

\* group_bit leaving when the bit is set.
group_bit_negated(instruction, st) ==
    IF is_optional(instruction)
    THEN [bit |-> ~pmap_next_bit_set(st).bit, st |-> pmap_next_bit_set(st).st]
    ELSE [bit |-> TRUE, st |-> st]

\* The first statement of decode_group: the presence bit of an optional
\* group, taken from the enclosing presence map.
group_bit(instruction, st) ==
    IF is_optional(instruction) THEN pmap_next_bit_set(st)
    ELSE [bit |-> TRUE, st |-> st]

\* decode_group up to the call that decodes its body.
DecodeGroup ==
    /\ Dispatching({"Group"})
    /\ LET instruction == Top.instructions[Top.i]
           b == group_bit(instruction, Met(St, instruction))
           d == switch_dictionary(b.st, instruction.dictionary)
           t == switch_type_ref(d.st, instruction.type_ref)
           calls == Append(msg, start_group(instruction.name))
       IN  \/ /\ ~b.bit
              /\ SetSt(b.st)
              /\ frames' = Advanced
              /\ UNCHANGED <<status, msg, messages>>
           \/ /\ b.bit
              /\ \E o \in BodyEntry(instruction.has_pmap, t.st) :
                     \/ /\ o.tag = "Ok"
                        /\ SetSt(o.st)
                        /\ msg' = calls
                        /\ frames' = Append(Advanced,
                                            Frame("decode_group", <<>>, 0, 0,
                                                  d.pushed, t.pushed, FALSE, FALSE))
                                     \o BodyFrames(instruction.has_pmap,
                                                   instruction.instructions)
                        /\ UNCHANGED <<status, messages>>
                     \/ /\ o.tag # "Ok"
                        /\ Fail(o, calls)
    /\ UNCHANGED finalizer_vars

\* decode_group after its body was decoded.
DecodeGroupReturn ==
    /\ Running("decode_group")
    /\ msg' = Append(msg, stop_group)
    /\ SetSt(restore(St, Top.has_dictionary, Top.has_type_ref))
    /\ frames' = Pop(frames)
    /\ UNCHANGED <<status, messages>>
    /\ UNCHANGED finalizer_vars

\* The template of a template reference: read from the stream when dynamic,
\* looked up by name when static.
resolve_template_ref(instruction, st) ==
    IF instruction.name = ""
    THEN decode_template_header(st)
    ELSE IF instruction.name \in DOMAIN defs.templates_by_name
         THEN {Out("Ok", UInt32(defs.templates_by_name[instruction.name]), st)}
         ELSE {Out("Err", NoValue, st)}

\* decode_template_ref up to its call of decode_instructions.
DecodeTemplateRef ==
    /\ Dispatching({"TemplateReference"})
    /\ LET instruction == Top.instructions[Top.i]
           is_dynamic == instruction.name = ""
       IN  /\ is_dynamic => Len(template_id) <= MaxNesting
           /\ \E o \in resolve_template_ref(instruction, MetReference(St, instruction)) :
                  \/ /\ o.tag = "Ok"
                     /\ LET template == defs.templates[o.value.n]
                            d == switch_dictionary(o.st, template.dictionary)
                            t == switch_type_ref(d.st, template.type_ref)
                        IN  /\ SetSt(t.st)
                            /\ msg' = Append(msg, start_template_ref(template.name, is_dynamic))
                            /\ frames' = Advanced
                                         \o <<Frame("decode_template_ref", <<>>, 0, 0,
                                                    d.pushed, t.pushed, is_dynamic, FALSE),
                                              InstructionsFrame(template.instructions)>>
                     /\ UNCHANGED <<status, messages>>
                  \/ /\ o.tag # "Ok"
                     /\ Fail(o, msg)
    /\ UNCHANGED finalizer_vars

\* drop_reference keeping the presence map of a dynamic reference.
drop_reference_keeps_map(st, is_dynamic) ==
    IF is_dynamic THEN drop_template_id(st) ELSE st

\* The end of decode_template_ref: a dynamic reference drops what it pushed.
drop_reference(st, is_dynamic) ==
    IF is_dynamic THEN drop_presence_map(drop_template_id(st)) ELSE st

\* decode_template_ref after decode_instructions returned Ok.
DecodeTemplateRefReturn ==
    /\ Running("decode_template_ref")
    /\ SetSt(drop_reference(restore(St, Top.has_dictionary, Top.has_type_ref),
                            Top.is_dynamic))
    /\ msg' = Append(msg, stop_template_ref)
    /\ frames' = Pop(frames)
    /\ UNCHANGED <<status, messages>>
    /\ UNCHANGED finalizer_vars

NextFinalizer == FinalizeTemplate \/ FinalizeReturn

SpecFinalizer == InitFinalizer /\ [][NextFinalizer]_vars

Next ==
    \/ FinalizeTemplate
    \/ FinalizeReturn
    \/ New
    \/ DecodeTemplate
    \/ DecodeTemplateReturn
    \/ DecodeInstructionsReturn
    \/ DecodeSegmentReturn
    \/ DecodeField
    \/ DecodeSequence
    \/ DecodeSequenceItem
    \/ DecodeSequenceItemReturn
    \/ DecodeSequenceReturn
    \/ DecodeGroup
    \/ DecodeGroupReturn
    \/ DecodeTemplateRef
    \/ DecodeTemplateRefReturn

Spec == Init /\ [][Next]_vars

(***************************************************************************)
(* Claims about the finalizer.                                             *)
(***************************************************************************)
Finalized == {t \in DOMAIN defs.templates : t < next_tpl}

\* C1: when construction returns Ok, every template's require_pmap is Some(b)
\* with b the OR of contributes_bit over its top-level instructions, and
\* has_pmap has been assigned on every Group, Sequence and Decimal at any
\* depth, also behind a sibling that already made the result true.
C1_RequirePmapAndFullWalk ==
    result = "Ok" =>
        \A t \in DOMAIN defs.templates :
            LET tpl == defs.templates[t]
            IN  /\ tpl.require_pmap = Some(AnyContributes(defs, tpl.instructions))
                /\ \A instr \in Nested(tpl.instructions) :
                       Composite(instr) => instr.has_pmap_writes >= 1

\* A finalized template whose first instruction takes a bit and whose second
\* one is a group holding a composite that needs a presence map of its own.
C1_Witness ==
    /\ result = "Ok"
    /\ \E t \in DOMAIN defs.templates :
           LET is == defs.templates[t].instructions
           IN  /\ Len(is) = 2
               /\ ContributesBit(defs, is[1])
               /\ is[2].value_type = "Group"
               /\ \E c \in Nested(is[2].instructions) :
                      Composite(c) /\ c.has_pmap /\ c.has_pmap_writes = 1

\* C2: for a scalar instruction has_presence_map_bit is the truth table:
\* false for None and Delta, true for Default, Copy, Increment and Tail,
\* presence = Optional for Constant; presence matters for Constant only.
C2_ScalarTruthTable ==
    \A t \in Finalized :
        LET tpl == defs.templates[t]
        IN  /\ \A instr \in Nested(tpl.instructions) :
                   IsScalar(instr) =>
                       LET r == has_presence_map_bit(defs, instr)
                       IN  /\ r.tag = "Ok"
                           /\ r.bit = ScalarRule(instr.operator, instr.presence)
                           /\ (instr.operator # "Constant" =>
                                  r.bit = ScalarRule(instr.operator, Mandatory)
                                  /\ r.bit = ScalarRule(instr.operator, Optional))
            /\ (Len(tpl.instructions) = 1 /\ IsScalar(tpl.instructions[1]) =>
                   tpl.require_pmap =
                       Some(ScalarRule(tpl.instructions[1].operator,
                                       tpl.instructions[1].presence)))

\* A template made of one optional Delta field was finalized without a bit.
C2_Witness ==
    \E t \in Finalized :
        LET tpl == defs.templates[t]
        IN  /\ Len(tpl.instructions) = 1
            /\ IsScalar(tpl.instructions[1])
            /\ tpl.instructions[1].operator = "Delta"
            /\ tpl.instructions[1].presence = Optional
            /\ tpl.require_pmap = Some(FALSE)

\* C3: a dynamic template reference contributes no bit, a static one the
\* require_pmap computed for the template it names; so a template with a
\* static reference, among its instructions, to a template that requires a
\* presence map requires one itself.
C3_TemplateRefBit ==
    \A t \in Finalized :
        LET tpl == defs.templates[t]
        IN  /\ \A instr \in Nested(tpl.instructions) :
                   instr.value_type = "TemplateReference" =>
                       LET r == has_presence_map_bit(defs, instr)
                       IN  /\ r.tag = "Ok"
                           /\ instr.name = "" => ~r.bit
                           /\ instr.name # "" =>
                                  /\ Referenced(defs, instr).require_pmap.some
                                  /\ r.bit = Referenced(defs, instr).require_pmap.v
            /\ \A i \in DOMAIN tpl.instructions :
                   LET instr == tpl.instructions[i]
                   IN  (/\ instr.value_type = "TemplateReference"
                        /\ instr.name # ""
                        /\ Referenced(defs, instr).require_pmap = Some(TRUE))
                       => tpl.require_pmap = Some(TRUE)

\* A template whose only bit comes from the template it refers to by name.
C3_Witness ==
    \E t \in Finalized :
        LET tpl == defs.templates[t]
        IN  /\ tpl.require_pmap = Some(TRUE)
            /\ \E i \in DOMAIN tpl.instructions :
                   /\ tpl.instructions[i].value_type = "TemplateReference"
                   /\ tpl.instructions[i].name # ""
            /\ \A i \in DOMAIN tpl.instructions :
                   tpl.instructions[i].value_type = "TemplateReference"
                   \/ ~ContributesBit(defs, tpl.instructions[i])

\* A static reference of template t that names no template, or one that is
\* not finalized before t.
BadReference(t) ==
    \E instr \in Nested(defs.templates[t].instructions) :
        /\ instr.value_type = "TemplateReference"
        /\ instr.name # ""
        /\ \/ instr.name \notin DOMAIN defs.templates_by_name
           \/ defs.templates_by_name[instr.name] >= t

\* C4: construction fails with a schema error when some static reference
\* names an absent template or one whose require_pmap is still unset, and it
\* succeeds only when every static reference targets an earlier template.
C4_BadReferenceIsSchemaError ==
    /\ result = "Ok" => \A t \in DOMAIN defs.templates : ~BadReference(t)
    /\ (\E t \in DOMAIN defs.templates : BadReference(t))
           => result \in {"pending", "Err"}

\* The same, for the schemas in which no sequence lacks its length field.
C4_BadReferenceWithoutEmptySequence ==
    /\ result = "Ok" => \A t \in DOMAIN defs.templates : ~BadReference(t)
    /\ (/\ \E t \in DOMAIN defs.templates : BadReference(t)
        /\ \A t \in DOMAIN defs.templates :
               \A instr \in Nested(defs.templates[t].instructions) :
                   instr.value_type = "Sequence" => Len(instr.instructions) > 0)
           => result \in {"pending", "Err"}

\* A sequence of the schema that has no length field.
SequenceWithoutLength ==
    \E t \in DOMAIN defs.templates :
        \E instr \in Nested(defs.templates[t].instructions) :
            instr.value_type = "Sequence" /\ Len(instr.instructions) = 0

\* C13: a Sequence without children makes the construction of Definitions
\* return a schema error; it neither succeeds nor crashes.
C13_NoLengthIsSchemaError ==
    SequenceWithoutLength => result \in {"pending", "Err"}

\* The instructions of the finalized templates, at any depth.
FinalizedInstructions ==
    UNION {Nested(defs.templates[t].instructions) : t \in Finalized}

\* C15: the has_pmap of a Group is the OR of contributes_bit over its
\* children, and its own bit is presence = Optional whatever its has_pmap
\* and its operator: a mandatory group whose children take bits has a
\* presence map and gives no bit to the enclosing one.
C15_GroupBits ==
    /\ \A instr \in FinalizedInstructions :
           instr.value_type = "Group" =>
               /\ instr.has_pmap = AnyContributes(defs, instr.instructions)
               /\ \A op \in Operators : \A hp \in BOOLEAN :
                      LET r == has_presence_map_bit(defs, [instr EXCEPT !.operator = op,
                                                                        !.has_pmap = hp])
                      IN  /\ r.tag = "Ok"
                          /\ r.bit = (instr.presence = Optional)
                          /\ r.out.has_pmap = instr.has_pmap
    /\ \A t \in Finalized :
           LET tpl == defs.templates[t]
           IN  (Len(tpl.instructions) = 1 /\ tpl.instructions[1].value_type = "Group") =>
                   tpl.require_pmap = Some(tpl.instructions[1].presence = Optional)

\* A template made of one mandatory group with a Copy field in it.
C15_Witness ==
    \E t \in Finalized :
        LET tpl == defs.templates[t]
        IN  /\ Len(tpl.instructions) = 1
            /\ tpl.instructions[1].value_type = "Group"
            /\ tpl.instructions[1].presence = Mandatory
            /\ tpl.instructions[1].has_pmap
            /\ tpl.instructions[1].has_pmap_writes = 1
            /\ tpl.require_pmap = Some(FALSE)

\* C16: the has_pmap of a Sequence with a length field is the OR of
\* contributes_bit over the instructions after the length field, and its own
\* bit is the bit of the length field, whatever its presence and its body.
C16_SequenceBits ==
    /\ \A instr \in FinalizedInstructions :
           (instr.value_type = "Sequence" /\ Len(instr.instructions) >= 1) =>
               /\ instr.has_pmap = AnyContributes(defs, Tail(instr.instructions))
               /\ \A pres \in Presences :
                      LET r == has_presence_map_bit(defs, [instr EXCEPT !.presence = pres])
                      IN  /\ r.tag = "Ok"
                          /\ r.bit = ContributesBit(defs, instr.instructions[1])
                          /\ r.out.has_pmap = instr.has_pmap
               /\ has_presence_map_bit(defs, [instr EXCEPT !.instructions =
                                                  <<instr.instructions[1]>>]).bit
                      = ContributesBit(defs, instr.instructions[1])
    /\ \A t \in Finalized :
           LET tpl == defs.templates[t]
           IN  (/\ Len(tpl.instructions) = 1
                /\ tpl.instructions[1].value_type = "Sequence"
                /\ Len(tpl.instructions[1].instructions) >= 1) =>
                   tpl.require_pmap =
                       Some(ContributesBit(defs, tpl.instructions[1].instructions[1]))

\* A sequence whose length field takes no bit and whose item does, and one
\* whose length field alone takes a bit.
C16_Witness ==
    /\ \E instr \in FinalizedInstructions :
           /\ instr.value_type = "Sequence"
           /\ Len(instr.instructions) = 2
           /\ ~ContributesBit(defs, instr.instructions[1])
           /\ ContributesBit(defs, instr.instructions[2])
           /\ instr.has_pmap
    /\ \E instr \in FinalizedInstructions :
           /\ instr.value_type = "Sequence"
           /\ Len(instr.instructions) = 2
           /\ ContributesBit(defs, instr.instructions[1])
           /\ ~ContributesBit(defs, instr.instructions[2])
           /\ ~instr.has_pmap

\* C17: the has_pmap of a Decimal is the OR of contributes_bit over its
\* sub-instructions; its own bit is true when has_pmap is, whatever its
\* operator and presence, and the bit of a scalar of its operator and
\* presence otherwise.
C17_DecimalBits ==
    /\ \A instr \in FinalizedInstructions :
           instr.value_type = "Decimal" =>
               /\ instr.has_pmap = AnyContributes(defs, instr.instructions)
               /\ \A op \in Operators : \A pres \in Presences :
                      LET r == has_presence_map_bit(defs, [instr EXCEPT !.operator = op,
                                                                        !.presence = pres])
                      IN  /\ r.tag = "Ok"
                          /\ r.out.has_pmap = instr.has_pmap
                          /\ r.bit = IF instr.has_pmap THEN TRUE ELSE ScalarRule(op, pres)
    /\ \A t \in Finalized :
           LET tpl == defs.templates[t]
           IN  (Len(tpl.instructions) = 1 /\ tpl.instructions[1].value_type = "Decimal") =>
                   tpl.require_pmap =
                       Some(IF tpl.instructions[1].has_pmap THEN TRUE
                            ELSE ScalarRule(tpl.instructions[1].operator,
                                            tpl.instructions[1].presence))

\* A Decimal without an operator that takes a bit for its sub-instruction.
C17_Witness ==
    \E t \in Finalized :
        LET tpl == defs.templates[t]
        IN  /\ Len(tpl.instructions) = 1
            /\ tpl.instructions[1].value_type = "Decimal"
            /\ tpl.instructions[1].operator = "None"
            /\ tpl.instructions[1].presence = Mandatory
            /\ tpl.instructions[1].has_pmap
            /\ tpl.require_pmap = Some(TRUE)

(***************************************************************************)
(* Claims about the decoder.                                               *)
(***************************************************************************)
\* A step of the handler whose guard holds, and not a stuttering step.
Steps == status' # status \/ frames' # frames

\* The bit next_bit_set would give for a presence map.
NextBit(pm) == IF pm.cursor < Len(pm.bits) THEN pm.bits[pm.cursor + 1] ELSE FALSE

NotFailed == status \in {"none", "new", "decoding", "Ok"}

\* C5, as amended: under every presence map the number of bits asked for is
\* the number of instructions met under it that take a bit themselves: the
\* fields, the sequences (by their length field) and the groups whose
\* contributes_bit is true, and the template id; so the k-th of them gets
\* the k-th bit.  A static template reference takes none.
C5_BitsConsumed ==
    NotFailed =>
        \A k \in DOMAIN presence_map : presence_map[k].cursor = presence_map[k].due

\* A message with a static reference to a template that requires a presence
\* map, decoded to its end: two bits asked for, by the id and by the field.
C5_Witness ==
    /\ Running("decode_template")
    /\ Peek(presence_map).refs = 1
    /\ Peek(presence_map).cursor = 2
    /\ Peek(presence_map).due = 2

\* C5, as claimed: at the end of a message the bits asked for from its
\* presence map are as many as the instructions decoded under it whose
\* contributes_bit is true, static template references included.
C5_AsClaimed ==
    Running("decode_template") =>
        Peek(presence_map).cursor = Peek(presence_map).due + Peek(presence_map).refs

\* C6: after decode_template returned an error the four stacks are the
\* initial sentinels.
C6_StacksClearedOnError ==
    status = "Err" =>
        /\ template_id = NewTemplateId
        /\ dictionary = NewDictionary
        /\ type_ref = NewTypeRef
        /\ presence_map = NewPresenceMap

\* A template id was read and pushed, and no instruction decoded since.
TemplateIdJustRead ==
    /\ status = "decoding"
    /\ Len(frames) >= 2
    /\ Top.fn = "decode_instructions"
    /\ Top.i = 1
    /\ \/ frames[Len(frames) - 1].fn = "decode_template"
       \/ /\ frames[Len(frames) - 1].fn = "decode_template_ref"
          /\ frames[Len(frames) - 1].is_dynamic

GlobalTemplateIdSlot ==
    [dict |-> DictionaryType("Global", 0, ""), key |-> "__template_id__"]

\* C7: every template id, of a message or of a dynamic reference, is read
\* against the Global slot "__template_id__" whatever scope is on top of the
\* dictionary stack: the slot holds the id just read, and no other scope has
\* a slot of that key.
C7_TemplateIdInGlobalSlot ==
    /\ TemplateIdJustRead =>
           /\ GlobalTemplateIdSlot \in DOMAIN context
           /\ context[GlobalTemplateIdSlot] = UInt32(Peek(template_id))
    /\ \A slot \in DOMAIN context :
           slot.key = "__template_id__" => slot = GlobalTemplateIdSlot

\* C8: decode_group asks the enclosing presence map for one bit when the
\* group is optional, first of all; on a 0 it returns Ok with no call of the
\* MessageFactory, no read and no push.  A mandatory group asks for no bit
\* and is always decoded.
C8_Step ==
    Dispatching({"Group"}) /\ Steps =>
        LET g == Top.instructions[Top.i]
            k == Len(presence_map)
        IN  IF is_optional(g)
            THEN /\ presence_map'[k].cursor = presence_map[k].cursor + 1
                 /\ ~NextBit(presence_map[k]) =>
                        /\ status' = "decoding"
                        /\ frames' = Advanced
                        /\ msg' = msg
                        /\ rdr' = rdr
                        /\ dictionary' = dictionary
                        /\ type_ref' = type_ref
                        /\ template_id' = template_id
                        /\ Len(presence_map') = k
                 /\ NextBit(presence_map[k]) =>
                        msg' = Append(msg, start_group(g.name))
            ELSE /\ presence_map'[k].cursor = presence_map[k].cursor
                 /\ msg' = Append(msg, start_group(g.name))

C8_OptionalGroup == [][C8_Step]_vars

\* A message of template A decoded to its end with its optional group absent.
C8_Witness ==
    /\ status = "Ok"
    /\ Len(msg) = 3
    /\ msg[1] = start_template(1, "A")
    /\ msg[2].call = "set_value"
    /\ presence_map = NewPresenceMap

\* Every sequence instruction of the schema.
AllSequences ==
    {instr \in UNION {Nested(defs.templates[t].instructions) :
                         t \in DOMAIN defs.templates} :
        instr.value_type = "Sequence"}

SequenceOfCall(call) ==
    CHOOSE s \in AllSequences : s.id = call.id /\ s.name = call.name

\* The calls from a start_sequence on, as far as they were made: the items
\* 0, 1, ... n-1 in this order, each with the values of the body between
\* start_sequence_item and stop_sequence_item, then stop_sequence.
SequenceCallsInOrder(p) ==
    LET n == msg[p].n
        s == SequenceOfCall(msg[p])
        b == Len(s.instructions) - 1
        Made(q) == q <= Len(msg)
    IN  /\ \E x \in AllSequences : x.id = msg[p].id /\ x.name = msg[p].name
        /\ \A i \in 0..(n - 1) :
               LET q == p + 1 + i * (b + 2)
               IN  /\ Made(q) => msg[q] = start_sequence_item(i)
                   /\ \A j \in 1..b :
                          Made(q + j) => /\ msg[q + j].call = "set_value"
                                         /\ msg[q + j].id = s.instructions[j + 1].id
                   /\ Made(q + b + 1) => msg[q + b + 1] = stop_sequence_item
        /\ Made(p + 1 + n * (b + 2)) => msg[p + 1 + n * (b + 2)] = stop_sequence
        /\ status = "Ok" => Made(p + 1 + n * (b + 2))

C9_Calls ==
    \A p \in DOMAIN msg : msg[p].call = "start_sequence" => SequenceCallsInOrder(p)

\* decode_sequence up to its loop: an error without a call, or a return
\* without a call and without a body, or start_sequence with the length.
C9_Step ==
    Dispatching({"Sequence"}) /\ Steps =>
        LET s == Top.instructions[Top.i]
            length_instruction == s.instructions[1]
        IN  /\ \/ status' = "Err" /\ msg' = msg
               \/ status' = "decoding" /\ msg' = msg /\ frames' = Advanced
               \/ /\ status' = "decoding"
                  /\ Len(frames') = Len(frames) + 1
                  /\ frames'[Len(frames')].fn = "decode_sequence"
                  /\ frames'[Len(frames')].i = 0
                  /\ ~frames'[Len(frames')].in_item
                  /\ msg' = Append(msg, start_sequence(s.id, s.name,
                                                       frames'[Len(frames')].length))
            /\ length_instruction.value_type # "UInt32" =>
                   \/ status' = "Err" /\ msg' = msg
                   \/ /\ is_optional(length_instruction)
                      /\ status' = "decoding" /\ msg' = msg /\ frames' = Advanced
            /\ (status' = "decoding" /\ msg' = msg) => is_optional(length_instruction)

\* C9: decode_sequence emits start_sequence(id, name, n), the n items in
\* increasing order and stop_sequence for a length Some(UInt32(n)), nothing
\* for None, and returns an error before any call for another kind of value.
C9_SequenceCalls == []C9_Calls /\ [][C9_Step]_vars

\* Scenario C with two items, the second one copied from the first.
C9_Witness ==
    /\ status = "Ok"
    /\ rdr = 6
    /\ msg = <<start_template(1, "S"), start_sequence(1, "s", 2),
               start_sequence_item(0), set_value(3, "v", UInt32(1)), stop_sequence_item,
               start_sequence_item(1), set_value(3, "v", UInt32(1)), stop_sequence_item,
               stop_sequence, stop_template>>

\* The frames that pushed a template id, and those that pushed a presence map.
OwnsTemplateId(f) ==
    f.fn = "decode_template" \/ (f.fn = "decode_template_ref" /\ f.is_dynamic)

OwnsPresenceMap(f) == OwnsTemplateId(f) \/ f.fn = "decode_segment"

Count(P(_)) == Cardinality({i \in DOMAIN frames : P(frames[i])})

\* The stacks hold what the handlers under way pushed, and nothing else: when
\* a template reference has returned, the template id and the presence map
\* of its caller are on top again.
C10_Stacks ==
    status = "decoding" =>
        /\ Len(template_id) = Count(OwnsTemplateId)
        /\ Len(presence_map) = 1 + Count(OwnsPresenceMap)

\* decode_template_ref up to the body: a dynamic reference reads a presence
\* map, then the template id (from the stream when the first bit of that map
\* is set), pushes both and takes the template of that id; a static one
\* reads and pushes neither.
C10_Enter ==
    Dispatching({"TemplateReference"}) /\ Steps /\ status' = "decoding" =>
        LET ref == Top.instructions[Top.i]
            k == Len(presence_map)
        IN  IF ref.name = ""
            THEN /\ Len(presence_map') = k + 1
                 /\ SubSeq(presence_map', 1, k) = presence_map
                 /\ Peek(presence_map').cursor = 1
                 /\ Len(template_id') = Len(template_id) + 1
                 /\ SubSeq(template_id', 1, Len(template_id)) = template_id
                 /\ rdr' = rdr + (IF Peek(presence_map').bits[1] THEN 2 ELSE 1)
                 /\ Peek(template_id') \in DOMAIN defs.templates_by_id
                 /\ LET template == defs.templates[defs.templates_by_id[Peek(template_id')]]
                    IN  /\ msg' = Append(msg, start_template_ref(template.name, TRUE))
                        /\ frames'[Len(frames')].instructions = template.instructions
            ELSE /\ presence_map' = [presence_map EXCEPT ![k].refs = presence_map'[k].refs]
                 /\ template_id' = template_id
                 /\ rdr' = rdr
                 /\ LET template == defs.templates[defs.templates_by_name[ref.name]]
                    IN  /\ msg' = Append(msg, start_template_ref(template.name, FALSE))
                        /\ frames'[Len(frames')].instructions = template.instructions

\* decode_template_ref after the body: a dynamic reference pops both.
C10_Leave ==
    Running("decode_template_ref") /\ Steps =>
        /\ msg' = Append(msg, stop_template_ref)
        /\ IF Top.is_dynamic
           THEN template_id' = Pop(template_id) /\ presence_map' = Pop(presence_map)
           ELSE template_id' = template_id /\ presence_map' = presence_map

\* Inside a static reference a field in the Template scope asks the presence
\* map of the caller for its bit and uses the slot of the caller's id.
C10_Inside ==
    (/\ Dispatching(FieldTypes)
     /\ Steps
     /\ status' = "decoding"
     /\ Len(frames) >= 2
     /\ frames[Len(frames) - 1].fn = "decode_template_ref"
     /\ ~frames[Len(frames) - 1].is_dynamic
     /\ Peek(dictionary).kind = "Template"
     /\ Top.instructions[Top.i].operator = "Copy"
     /\ Top.instructions[Top.i].dictionary = Inherit) =>
        LET f == Top.instructions[Top.i]
            k == Len(presence_map)
            slot == [dict |-> DictionaryType("Template", Peek(template_id), ""),
                     key |-> f.key]
        IN  /\ Len(presence_map') = k
            /\ presence_map'[k].cursor = presence_map[k].cursor + 1
            /\ slot \in DOMAIN context'
            /\ context'[slot] = msg'[Len(msg')].value

ReadsTemplateId ==
    /\ Steps
    /\ status = "new" \/ Dispatching({"TemplateReference"})
    /\ Len(template_id') = Len(template_id) + 1

\* C11: a template id that is no key of templates_by_id ends the decode with
\* an error at once: no start_template or start_template_ref for it, and no
\* call of the MessageFactory and no read after the error.
C11_Step ==
    /\ (ReadsTemplateId /\ Peek(template_id') \notin DOMAIN defs.templates_by_id) =>
           /\ status' = "Err"
           /\ msg' = msg
           /\ frames' = <<>>
    /\ (status = "Err" /\ Steps) =>
           /\ status' = "new"
           /\ msg' = <<>>
           /\ rdr' = 0

C11_UnknownTemplateId == [][C11_Step]_vars

\* The id of a dynamic reference was unknown: the error, and no
\* start_template_ref after the calls made before the reference.
C11_Witness ==
    /\ status = "Err"
    /\ Len(template_id) = 2
    /\ Peek(template_id) \notin DOMAIN defs.templates_by_id
    /\ msg = <<start_template(1, "G"), set_value(1, "p", UInt32(1))>>

\* The calls at p.. of msg read as the depth-first traversal of a list of
\* instructions from its i-th on: the positions where such a reading ends.
\* A field is one set_value; an optional group, and a sequence with an
\* optional length, may be left out; a composite is its start call, the
\* traversal of its body and its stop call.
RECURSIVE Traversal(_, _, _)
Is(p, call) == p <= Len(msg) /\ msg[p] = call

Called(p, fn) == p <= Len(msg) /\ msg[p].call = fn

Closed(ends, call) == {e + 1 : e \in {x \in ends : Is(x, call)}}

RECURSIVE Items(_, _, _, _)
Items(body, i, n, p) ==
    IF i = n THEN {p}
    ELSE IF ~Is(p, start_sequence_item(i)) THEN {}
         ELSE UNION {Items(body, i + 1, n, e) :
                        e \in Closed(Traversal(body, 1, p + 1), stop_sequence_item)}

One(instr, p) ==
    CASE instr.value_type = "Group" ->
           (IF is_optional(instr) THEN {p} ELSE {})
           \cup (IF Is(p, start_group(instr.name))
                 THEN Closed(Traversal(instr.instructions, 1, p + 1), stop_group)
                 ELSE {})
      [] instr.value_type = "Sequence" ->
           (IF is_optional(instr.instructions[1]) THEN {p} ELSE {})
           \cup (IF /\ Called(p, "start_sequence")
                    /\ msg[p] = start_sequence(instr.id, instr.name, msg[p].n)
                 THEN Closed(Items(Tail(instr.instructions), 0, msg[p].n, p + 1),
                             stop_sequence)
                 ELSE {})
      [] instr.value_type = "TemplateReference" ->
           UNION {IF /\ Is(p, start_template_ref(defs.templates[t].name, instr.name = ""))
                     /\ instr.name = "" \/ defs.templates[t].name = instr.name
                  THEN Closed(Traversal(defs.templates[t].instructions, 1, p + 1),
                              stop_template_ref)
                  ELSE {} : t \in DOMAIN defs.templates}
      [] OTHER ->
           IF /\ Called(p, "set_value")
              /\ msg[p] = set_value(instr.id, instr.name, msg[p].value)
           THEN {p + 1} ELSE {}

Traversal(instrs, i, p) ==
    IF i > Len(instrs) THEN {p}
    ELSE UNION {Traversal(instrs, i + 1, e) : e \in One(instrs[i], p)}

\* C12: the calls of a decoded message are the depth-first traversal, in
\* the order of declaration, of the instructions decoded: start_template
\* first, stop_template last, every start call closed by its stop call, and
\* one set_value for every field met, absent values included.
C12_Calls ==
    status = "Ok" =>
        \E t \in DOMAIN defs.templates :
            /\ Is(1, start_template(defs.templates[t].id, defs.templates[t].name))
            /\ Len(msg) \in {e \in Traversal(defs.templates[t].instructions, 1, 2) :
                                Is(e, stop_template)}

\* A decoded message with a group in a group and an absent value.
C12_Witness ==
    /\ status = "Ok"
    /\ \E p \in DOMAIN msg : msg[p].call = "set_value" /\ msg[p].value = NoValue
    /\ \E p \in DOMAIN msg : msg[p] = start_group("o")

\* The top presence map has no bit left.
NoBitLeft == Peek(presence_map).cursor >= Len(Peek(presence_map).bits)

\* C14: an optional group decoded when the top presence map has no bit left
\* makes the decode fail with an error; the missing bit is not taken as 0.
C14_Step ==
    (/\ Dispatching({"Group"})
     /\ Steps
     /\ is_optional(Top.instructions[Top.i])
     /\ NoBitLeft) => status' = "Err"

C14_OverReadIsError == [][C14_Step]_vars

\* The presence maps below the top one are left as they were.
SameBelow(k) == \A j \in 1..(k - 1) : presence_map'[j] = presence_map[j]

\* A body is entered: with has_pmap a presence map is read and pushed on
\* the enclosing one and decode_segment runs the body; without it nothing is
\* read and the stack is left alone.
EntersBody(instruction) ==
    LET k == Len(presence_map)
    IN  IF instruction.has_pmap
        THEN /\ Len(presence_map') = k + 1
             /\ SameBelow(k)
             /\ presence_map'[k].bits = presence_map[k].bits
             /\ Peek(presence_map').cursor = 0
             /\ rdr' = rdr + 1
             /\ frames'[Len(frames') - 1].fn = "decode_segment"
        ELSE /\ Len(presence_map') = k
             /\ SameBelow(k)
             /\ presence_map'[k].bits = presence_map[k].bits
             /\ rdr' = rdr
             /\ frames'[Len(frames') - 1].fn # "decode_segment"

C18_Step ==
    /\ (/\ Dispatching({"Group"})
        /\ status' = "decoding"
        /\ Len(frames') > Len(frames)) => EntersBody(Top.instructions[Top.i])
    /\ (/\ Running("decode_sequence")
        /\ status' = "decoding"
        /\ Len(frames') > Len(frames)) => EntersBody(Top.instructions[1])
    /\ (Running("decode_segment") /\ Steps) =>
           /\ presence_map' = Pop(presence_map)
           /\ rdr' = rdr
           /\ msg' = msg
           /\ frames' = Pop(frames)
           /\ frames'[Len(frames')].fn \in {"decode_group", "decode_sequence"}

\* The presence maps on the stack are those of the bodies under way.
C18_Stack ==
    status = "decoding" =>
        /\ Len(presence_map) = 1 + Count(OwnsPresenceMap)
        /\ \A i \in DOMAIN frames :
               frames[i].fn = "decode_segment" =>
                   /\ i > 1
                   /\ frames[i - 1].fn \in {"decode_group", "decode_sequence"}
                   /\ frames[i - 1].fn = "decode_sequence" =>
                          /\ frames[i - 1].in_item
                          /\ frames[i - 1].instructions[1].has_pmap
        /\ \A i \in DOMAIN frames :
               (/\ frames[i].fn = "decode_sequence"
                /\ frames[i].in_item
                /\ i < Len(frames)) =>
                   (frames[i].instructions[1].has_pmap
                       <=> frames[i + 1].fn = "decode_segment")

\* C18: the body of a group and every item of a sequence get a presence map
\* of their own, read from the stream and pushed, exactly when has_pmap is
\* true, and it is popped right after the body; when has_pmap is false no
\* presence map is read and the body is decoded against the enclosing one.
C18_BodyMaps == []C18_Stack /\ [][C18_Step]_vars

\* The first item of a sequence with has_pmap was decoded and its presence
\* map popped: the map of the message is on top again.
C18_Witness ==
    /\ Running("decode_sequence")
    /\ Top.in_item
    /\ Top.instructions[1].has_pmap
    /\ Len(presence_map) = 2
    /\ msg[Len(msg)].call = "set_value"

\* The instruction a handler was called for by decode_instructions, which
\* has moved on to the next one.
CalledFor(j) == frames[j - 1].instructions[frames[j - 1].i - 1]

\* The template ids pushed by the handlers up to the j-th.
IdsUpTo(j) == Cardinality({i \in 1..j : OwnsTemplateId(frames[i])})

\* What the j-th handler under way has a dictionary and a type_ref from: its
\* template, or its instruction.
ScopeOf(j) ==
    LET f == frames[j]
    IN  CASE OwnsTemplateId(f) ->
               defs.templates[defs.templates_by_id[template_id[IdsUpTo(j)]]]
          [] f.fn = "decode_template_ref" ->
               defs.templates[defs.templates_by_name[CalledFor(j).name]]
          [] f.fn = "decode_group" -> CalledFor(j)
          [] f.fn = "decode_sequence" -> f.instructions[1]
          [] OTHER -> [dictionary |-> Inherit, type_ref |-> AnyType]

\* The scopes the handlers under way have entered, from the sentinel on.
RECURSIVE Dictionaries(_)
Dictionaries(j) ==
    IF j = 0 THEN <<Global>>
    ELSE IF ScopeOf(j).dictionary # Inherit
         THEN Append(Dictionaries(j - 1), ScopeOf(j).dictionary)
         ELSE Dictionaries(j - 1)

RECURSIVE TypeRefs(_)
TypeRefs(j) ==
    IF j = 0 THEN <<AnyType>>
    ELSE IF ScopeOf(j).type_ref # AnyType
         THEN Append(TypeRefs(j - 1), ScopeOf(j).type_ref)
         ELSE TypeRefs(j - 1)

\* A stack after the step: as before, or pushed on, or popped.
AtTheTop(before, after) ==
    \/ after = before
    \/ Len(after) = Len(before) + 1 /\ SubSeq(after, 1, Len(before)) = before
    \/ Len(before) > 0 /\ after = SubSeq(before, 1, Len(before) - 1)

\* The stacks hold the scopes of the handlers under way and nothing else, so
\* a handler that has returned Ok has left them as it found them; after a
\* decoded message they are the sentinels.
C19_Stacks ==
    /\ status = "decoding" =>
           /\ dictionary = Dictionaries(Len(frames))
           /\ type_ref = TypeRefs(Len(frames))
           /\ Len(template_id) = Count(OwnsTemplateId)
           /\ Len(presence_map) = 1 + Count(OwnsPresenceMap)
           /\ \A j \in DOMAIN frames :
                  /\ frames[j].has_dictionary <=> ScopeOf(j).dictionary # Inherit
                  /\ frames[j].has_type_ref <=> ScopeOf(j).type_ref # AnyType
    /\ status = "Ok" =>
           /\ template_id = NewTemplateId
           /\ dictionary = NewDictionary
           /\ type_ref = NewTypeRef
           /\ presence_map = NewPresenceMap

\* A step pushes or pops at the top only; a handler that returns Ok within
\* the step (a field, an absent group, a sequence without length) leaves the
\* stacks as they are, and so does the return of a handler to its caller.
C19_Step ==
    /\ (status = "decoding" /\ status' \in {"decoding", "Ok"}) =>
           /\ AtTheTop(template_id, template_id')
           /\ AtTheTop(dictionary, dictionary')
           /\ AtTheTop(type_ref, type_ref')
           /\ Len(presence_map') - Len(presence_map) \in {-1, 0, 1}
    /\ (Dispatching(FieldTypes \cup Composites) /\ status' = "decoding"
        /\ frames' = Advanced) =>
           /\ template_id' = template_id
           /\ dictionary' = dictionary
           /\ type_ref' = type_ref
           /\ Len(presence_map') = Len(presence_map)

\* C19: a handler that returns Ok leaves the template_id, dictionary and
\* type_ref stacks as they were at its entry and the presence_map stack at
\* the same depth; a scope is pushed unless it is Inherit (Any) and popped
\* exactly when it was pushed; so the instructions of a list all start with
\* the same stacks, and a decoded message leaves the sentinels.
C19_Balanced == []C19_Stacks /\ [][C19_Step]_vars

\* Template B was decoded: its group pushed a dictionary and a type_ref.
C19_Witness ==
    /\ status = "Ok"
    /\ \E p \in DOMAIN msg : msg[p] = start_group("m")
    /\ dictionary = NewDictionary
    /\ type_ref = NewTypeRef

\* The scope of dictionary slots for a dictionary on top of the dictionary
\* stack, a template id on top of template_id and a type on top of type_ref.
ScopeKey(dict, id, tref) ==
    CASE dict.kind = "Global" -> DictionaryType("Global", 0, "")
      [] dict.kind = "Template" -> DictionaryType("Template", id, "")
      [] dict.kind = "Type" ->
           DictionaryType("Type", 0, IF tref = AnyType THEN "__any__" ELSE tref.name)
      [] dict.kind = "UserDefined" -> DictionaryType("UserDefined", 0, dict.name)

\* The first dictionary of the list that is not Inherit, else the top of
\* the dictionary stack.
Explicit(dicts) ==
    IF \E i \in DOMAIN dicts : dicts[i] # Inherit
    THEN dicts[CHOOSE i \in DOMAIN dicts :
                   dicts[i] # Inherit /\ \A j \in 1..(i - 1) : dicts[j] = Inherit]
    ELSE Peek(dictionary)

\* The step touches no slot but this one, and has stored the value in it.
OnlySlot(slot, value, stores) ==
    /\ \A s \in DOMAIN context : s \in DOMAIN context'
    /\ \A s \in DOMAIN context' :
           s # slot => s \in DOMAIN context /\ context'[s] = context[s]
    /\ (stores /\ value # NoValue) => slot \in DOMAIN context' /\ context'[slot] = value
    /\ ~stores => context' = context

UsesDictionary(instr) == instr.operator \in {"Copy", "Increment", "Delta", "Tail"}

\* make_dict_type on stacks of any depth depends on their tops only.
C20_Tops ==
    \A dict \in {Global, TemplateDict, TypeDict, UserDict} :
        \A tref \in {AnyType, AppType} :
            \A id \in 1..2 :
                \A below \in {<<>>, <<Global>>, <<TemplateDict, UserDict>>} :
                    make_dict_type([dictionary |-> Append(below, dict),
                                    template_id |-> <<3 - id, id>>,
                                    type_ref |-> <<AppType, AnyType, tref>>])
                        = ScopeKey(dict, id, tref)

\* A field, and the length field of a sequence, is extracted with its own
\* dictionary when it has one, else with the nearest one around it.
C20_Step ==
    /\ (Dispatching(FieldTypes) /\ status' = "decoding") =>
           LET f == Top.instructions[Top.i]
               value == msg'[Len(msg')].value
           IN  OnlySlot([dict |-> ScopeKey(Explicit(<<f.dictionary>>),
                                           Peek(template_id), Peek(type_ref)),
                         key |-> f.key],
                        value, UsesDictionary(f))
    /\ (Dispatching({"Sequence"}) /\ status' = "decoding" /\ msg' # msg) =>
           LET s == Top.instructions[Top.i]
               f == s.instructions[1]
               tref == IF s.type_ref # AnyType THEN s.type_ref ELSE Peek(type_ref)
           IN  OnlySlot([dict |-> ScopeKey(Explicit(<<f.dictionary, s.dictionary>>),
                                           Peek(template_id), tref),
                         key |-> f.key],
                        UInt32(msg'[Len(msg')].n), UsesDictionary(f))

\* C20: the scope of the slot ctx_get and ctx_set use is given by the tops
\* of the stacks: Global, Template(top of template_id), Type(name of the top
\* of type_ref, "__any__" for Any), UserDefined(name); a field with a
\* dictionary of its own is extracted with it on top, one with Inherit with
\* the nearest explicit scope around it.
C20_SlotScope == []C20_Tops /\ [][C20_Step]_vars

\* A Copy field with dictionary=Type, inside a group with a UserDefined
\* dictionary and the type t, has stored its value under Type(t).
C20_Witness ==
    /\ status = "decoding"
    /\ dictionary = <<Global, UserDict>>
    /\ [dict |-> DictionaryType("Type", 0, "t"), key |-> "a"] \in DOMAIN context
    /\ msg[Len(msg)].call = "set_value"
    /\ msg[Len(msg)].name = "a"
    /\ msg[Len(msg)].value # NoValue

\* C21: while a message is decoded the dictionary, type_ref and presence_map
\* stacks are never empty, the dictionary stack never holds Inherit, and the
\* template_id stack is not empty when a slot is asked for under the
\* Template scope: the unreachable!() of make_dict_type and the must_peek,
\* must_peek_mut and peek().unwrap() of the decoder state never fail.
C21_NoPanic ==
    /\ status # "Panic"
    /\ status \in {"new", "decoding", "Ok", "Err"} =>
           /\ Len(dictionary) >= 1
           /\ Len(type_ref) >= 1
           /\ Len(presence_map) >= 1
           /\ \A i \in DOMAIN dictionary : dictionary[i] # Inherit
    /\ status = "decoding" =>
           /\ Len(template_id) >= 1
           /\ ~make_dict_type_panics(St)
           /\ Dispatching(FieldTypes) =>
                  ~make_dict_type_panics(
                       switch_dictionary(St, Top.instructions[Top.i].dictionary).st)
           /\ Dispatching({"TemplateReference"}) =>
                  Len(presence_map) >= 1 /\ ~make_dict_type_panics(St)

\* A slot of the Template scope was used while a template with the Template
\* dictionary is decoded.
C21_Witness ==
    /\ status = "decoding"
    /\ Peek(dictionary).kind = "Template"
    /\ Len(template_id) >= 1
    /\ \E slot \in DOMAIN context :
           slot.dict = DictionaryType("Template", Peek(template_id), "")

====
